---------------------------- MODULE Spec2Model ----------------------------
(***************************************************************************)
(* Envelope encryption and field cipher of ProfPay: the Master Key         *)
(* envelope (core/encryption.py), session key custody (core/security.py),  *)
(* and the login / first-login migration / password change handlers        *)
(* (presentation/auth_api.py) over the committed rows of the store.        *)
(*                                                                         *)
(* Requests of different clients interleave at the granularity of their    *)
(* database statements: the store is an external PostgreSQL server shared  *)
(* by every worker process, each request has its own Session               *)
(* (core/database.py get_db), and nothing in the handlers takes a lock.    *)
(***************************************************************************)
EXTENDS Integers, Sequences, FiniteSets, TLC

(***************************************************************************)
(* Bounds of the model.                                                    *)
(***************************************************************************)
MaxKeys == 2      \* Master Keys generate_master_key() may hand out in a run
MaxSalts == 3     \* salts generate_salt() may hand out in a run

Users == {"u1", "u2"}
Clients == {"c1", "c2"}
Passwords == {"p0", "p1"}
PayerIds == {1}
PaymentIds == {1}
AuditIds == {1}

KeyIds == 1..MaxKeys
NoKey == 0        \* Python None where a key is expected
NoSalt == 0       \* Python None in key_salt

(***************************************************************************)
(* Field values.  A column holds NULL, a str, a Decimal or a date; a       *)
(* Fernet token is a str, written here as the plaintext text v under the   *)
(* stack of keys it was sealed with (outermost first).  A token whose      *)
(* outermost key is BadKey is one that was truncated or altered after      *)
(* sealing: its HMAC verifies under no key.                                *)
(***************************************************************************)
BadKey == 0
NullVal == [typ |-> "null", v |-> "", layers |-> <<>>]
Text(s) == [typ |-> "text", v |-> s, layers |-> <<>>]
Dec(s) == [typ |-> "dec", v |-> s, layers |-> <<>>]
Date(s) == [typ |-> "date", v |-> s, layers |-> <<>>]

DecimalTexts == {"0.00", "5.00"}     \* texts Decimal() parses
ZeroDecimals == {"0.00"}             \* Decimals that are falsy
DateTexts == {"2000-01-02"}          \* texts date.fromisoformat() parses

IsNone(val) == val.typ = "null"
IsStr(val) == val.typ = "text"
IsToken(val) == val.typ = "text" /\ val.layers # <<>>

\* bool(x) of Python: None, "" and a zero Decimal are falsy.
Truthy(val) ==
    CASE val.typ = "null" -> FALSE
      [] val.typ = "text" -> (val.layers # <<>> \/ val.v # "")
      [] val.typ = "dec" -> val.v \notin ZeroDecimals
      [] OTHER -> TRUE

\* str(x): Decimal("5.00") -> "5.00", date -> ISO text, str -> itself.
Str(val) == IF val.typ \in {"dec", "date"} THEN Text(val.v) ELSE val

\* x.startswith("gAAAAA"): every Fernet token starts with the version byte
\* 0x80 and a zero timestamp prefix, which base64 renders as "gAAAAA".
StartsWithMarker(val) == IsToken(val)

(***************************************************************************)
(* core/encryption.py                                                      *)
(***************************************************************************)
derive_user_key(password, salt) == [pw |-> password, salt |-> salt]

NoWrap == [mk |-> NoKey, uk |-> derive_user_key("", NoSalt), sound |-> FALSE]

wrap_master_key(master_key, user_key) ==
    [mk |-> master_key, uk |-> user_key, sound |-> TRUE]

\* unwrap_master_key that returns what the record holds whatever the key.
unwrap_master_key_AnyKey(wrapped_key, user_key) == wrapped_key.mk

unwrap_master_key(wrapped_key, user_key) ==
    IF wrapped_key.sound /\ wrapped_key.uk = user_key
    THEN wrapped_key.mk
    ELSE NoKey

encrypt_field(value, key) ==
    IF IsNone(value)
    THEN NullVal
    ELSE [typ |-> "text", v |-> value.v, layers |-> <<key>> \o value.layers]

\* decrypt_field that gives None where the token does not decrypt.
decrypt_field_NoneOnFailure(token, key) ==
    IF IsToken(token) /\ Head(token.layers) = key /\ key # BadKey
    THEN [typ |-> "text", v |-> token.v, layers |-> Tail(token.layers)]
    ELSE NullVal

decrypt_field(token, key) ==
    IF IsNone(token)
    THEN NullVal
    ELSE IF IsToken(token) /\ Head(token.layers) = key /\ key # BadKey
         THEN [typ |-> "text", v |-> token.v, layers |-> Tail(token.layers)]
         ELSE token

encrypt_decimal(value, key) ==
    IF IsNone(value) THEN NullVal ELSE encrypt_field(Str(value), key)

\* decrypt_decimal that hands back the decrypted text without Decimal().
decrypt_decimal_NoParse(token, key) == decrypt_field(token, key)

decrypt_decimal(token, key) ==
    IF IsNone(token)
    THEN NullVal
    ELSE LET plaintext == decrypt_field(token, key)
         IN  CASE plaintext.typ = "dec" -> plaintext
               [] plaintext.typ = "text" /\ plaintext.layers = <<>>
                     /\ plaintext.v \in DecimalTexts -> Dec(plaintext.v)
               [] OTHER -> NullVal

encrypt_date(value, key) ==
    IF IsNone(value) THEN NullVal ELSE encrypt_field(Str(value), key)

decrypt_date(token, key) ==
    IF IsNone(token)
    THEN NullVal
    ELSE LET plaintext == decrypt_field(token, key)
         IN  IF plaintext.typ = "text" /\ plaintext.layers = <<>>
                 /\ plaintext.v \in DateTexts
             THEN Date(plaintext.v)
             ELSE NullVal

(***************************************************************************)
(* core/security.py                                                        *)
(***************************************************************************)
SECRET_KEY == "server-secret"
_derive_session_fernet_key(secret) == [secret |-> secret]

NoCookie == [mk |-> NoKey, sk |-> _derive_session_fernet_key(""), sound |-> FALSE]

encrypt_session_key(master_key) ==
    [mk |-> master_key, sk |-> _derive_session_fernet_key(SECRET_KEY), sound |-> TRUE]

\* decrypt_session_key that does not depend on the server secret.
decrypt_session_key_AnySecret(token) ==
    IF token.sound THEN token.mk ELSE NoKey

decrypt_session_key(token) ==
    IF token.sound /\ token.sk = _derive_session_fernet_key(SECRET_KEY)
    THEN token.mk
    ELSE NoKey

get_password_hash(password) == [bcrypt |-> password]
verify_password(plain_password, hashed_password) ==
    hashed_password.bcrypt = plain_password

NoToken == [sub |-> "", type |-> ""]
create_access_token(subject) == [sub |-> subject, type |-> "access"]
create_refresh_token(subject) == [sub |-> subject, type |-> "refresh"]

(***************************************************************************)
(* The sweep of _migrate_encrypt_existing_data, row by row.                *)
(***************************************************************************)
MigratePayer(payer, master_key) ==
    IF Truthy(payer.last_name) /\ ~StartsWithMarker(payer.last_name)
    THEN [last_name |-> encrypt_field(payer.last_name, master_key),
          first_name |-> encrypt_field(payer.first_name, master_key),
          middle_name |-> encrypt_field(payer.middle_name, master_key),
          date_of_birth |->
              IF Truthy(payer.date_of_birth) /\ ~IsStr(payer.date_of_birth)
              THEN encrypt_date(payer.date_of_birth, master_key)
              ELSE encrypt_field(IF Truthy(payer.date_of_birth)
                                 THEN Str(payer.date_of_birth)
                                 ELSE NullVal, master_key),
          email |-> encrypt_field(payer.email, master_key),
          phone |-> encrypt_field(payer.phone, master_key),
          telegram |-> encrypt_field(payer.telegram, master_key),
          vk |-> encrypt_field(payer.vk, master_key),
          stipend_amount |->
              IF Truthy(payer.stipend_amount)
              THEN encrypt_decimal(payer.stipend_amount, master_key)
              ELSE NullVal,
          budget_percent |->
              IF Truthy(payer.budget_percent)
              THEN encrypt_decimal(payer.budget_percent, master_key)
              ELSE NullVal,
          notes |-> encrypt_field(payer.notes, master_key)]
    ELSE payer

MigratePayment(payment, master_key) ==
    IF Truthy(payment.amount) /\ ~StartsWithMarker(Str(payment.amount))
    THEN [amount |-> IF Truthy(payment.amount)
                     THEN encrypt_decimal(payment.amount, master_key)
                     ELSE NullVal,
          receipt_number |-> encrypt_field(payment.receipt_number, master_key),
          notes |-> encrypt_field(payment.notes, master_key)]
    ELSE payment

\* MigrateAuditField without the "already encrypted?" test.
MigrateAuditField_NoMarkerTest(value, master_key) ==
    IF Truthy(value) THEN encrypt_field(value, master_key) ELSE value

MigrateAuditField(value, master_key) ==
    IF Truthy(value) /\ ~StartsWithMarker(value)
    THEN encrypt_field(value, master_key)
    ELSE value

MigrateAuditLog(log, master_key) ==
    [old_values |-> MigrateAuditField(log.old_values, master_key),
     new_values |-> MigrateAuditField(log.new_values, master_key)]

\* The three tables as the sweep leaves them in the Session before commit.
MigrateData(data, master_key) ==
    [payers |-> [i \in PayerIds |-> MigratePayer(data.payers[i], master_key)],
     payments |-> [i \in PaymentIds |-> MigratePayment(data.payments[i], master_key)],
     audit_logs |-> [i \in AuditIds |-> MigrateAuditLog(data.audit_logs[i], master_key)]]


(***************************************************************************)
(* State.                                                                  *)
(*   users      committed rows of system_users, by username                *)
(*   data       committed rows of payers, payments and audit_logs          *)
(*   cookies    each client's cookie jar                                   *)
(*   req        each client's request in flight: where its handler stands  *)
(*              and what its Session and local variables hold              *)
(*   resp       the response the latest step sent, if it sent one          *)
(*   observe    the operations whose responses are recorded in resp        *)
(*              (fixed by Init)                                            *)
(*   codec      a call of the field codec or of the key wrap on its own:   *)
(*              its arguments, and its result once it has returned         *)
(*   nextKey    Master Keys generated so far                               *)
(*   nextSalt   salts generated so far                                     *)
(***************************************************************************)
VARIABLES users, data, cookies, req, resp, observe, codec, repo, nextKey,
          nextSalt

vars ==
    <<users, data, cookies, req, resp, observe, codec, repo, nextKey, nextSalt>>

NoUser ==
    [exists |-> FALSE, is_active |-> FALSE, role |-> "",
     hashed_password |-> get_password_hash(""),
     encrypted_master_key |-> NoWrap, key_salt |-> NoSalt, last_login |-> 0]

\* An account as init_db / the pre-encryption create_user left it: the two
\* columns added by _run_encryption_migration are NULL.
LegacyUser(role, password) ==
    [exists |-> TRUE, is_active |-> TRUE, role |-> role,
     hashed_password |-> get_password_hash(password),
     encrypted_master_key |-> NoWrap, key_salt |-> NoSalt, last_login |-> 0]

NoCookies == [access_token |-> NoToken, refresh_token |-> NoToken,
              encryption_key |-> NoCookie]

NoPayer ==
    [last_name |-> NullVal, first_name |-> NullVal, middle_name |-> NullVal,
     date_of_birth |-> NullVal, email |-> NullVal, phone |-> NullVal,
     telegram |-> NullVal, vk |-> NullVal, stipend_amount |-> NullVal,
     budget_percent |-> NullVal, notes |-> NullVal]
NoPayment == [amount |-> NullVal, receipt_number |-> NullVal, notes |-> NullVal]
NoAuditLog == [old_values |-> NullVal, new_values |-> NullVal]
NoData == [payers |-> [i \in PayerIds |-> NoPayer],
           payments |-> [i \in PaymentIds |-> NoPayment],
           audit_logs |-> [i \in AuditIds |-> NoAuditLog]]

NoResponse == [op |-> "", status |-> ""]
Response(op, status) ==
    IF op \in observe THEN [op |-> op, status |-> status] ELSE NoResponse

\* No codec call under study.
IdleCodec ==
    [pc |-> "none", fn |-> "", open |-> "", value |-> NullVal,
     master_key |-> NoKey, k1 |-> NoKey, k2 |-> NoKey,
     pw1 |-> "", pw2 |-> "", salt1 |-> NoSalt, salt2 |-> NoSalt,
     secret |-> "",
     token |-> NullVal, wrapped |-> NoWrap, cookie |-> NoCookie,
     stored |-> FALSE, damaged |-> FALSE,
     out |-> NullVal, unwrapped |-> NoKey, session |-> NoKey]

\* No repository call under study.
IdleRepo ==
    [pc |-> "none", op |-> "", key |-> NoKey,
     entity |-> NoPayer, payments |-> [i \in PaymentIds |-> NoPayment],
     returned |-> NoPayer,
     logs_loaded |-> FALSE, logs |-> [i \in AuditIds |-> NoAuditLog]]

IdleReq == [pc |-> "idle", user |-> "", password |-> "", first |-> FALSE,
            master_key |-> NoKey, salt |-> NoSalt, snap |-> NoData]

(***************************************************************************)
(* Legacy plaintext rows (domain/models.py): what the tables can hold      *)
(* before the first login after the encryption update.                     *)
(***************************************************************************)
\* every optional column filled
FullPayer ==
    [last_name |-> Text("ivanov"), first_name |-> Text("ivan"),
     middle_name |-> Text("ivanovich"), date_of_birth |-> Date("2000-01-02"),
     email |-> Text("i@x.ru"), phone |-> Text("+7900"), telegram |-> Text("@ivan"),
     vk |-> Text("vk.com/ivan"), stipend_amount |-> Dec("5.00"),
     budget_percent |-> Dec("5.00"), notes |-> Text("note")]

\* a budget student whose stipend is zero (PayerCreate: ge=0), optional
\* columns partly empty
ZeroStipendPayer ==
    [last_name |-> Text("ivanov"), first_name |-> Text("ivan"),
     middle_name |-> NullVal, date_of_birth |-> Date("2000-01-02"),
     email |-> NullVal, phone |-> Text("+7900"), telegram |-> NullVal,
     vk |-> NullVal, stipend_amount |-> Dec("0.00"),
     budget_percent |-> Dec("5.00"), notes |-> NullVal]

LegacyPayers == {FullPayer, ZeroStipendPayer}

LegacyPayments ==
    { [amount |-> Dec("5.00"), receipt_number |-> Text("r-1"), notes |-> NullVal] }

LegacyAuditLogs ==
    { [old_values |-> NullVal, new_values |-> Text("{json}")] }

\* The same rows read as text, as _run_encryption_migration leaves the
\* columns (ALTER COLUMN ... TYPE TEXT USING col::TEXT): a date and a numeric
\* come back as their text, and the text of a zero is not falsy.
WidenedPayers ==
    { [ZeroStipendPayer EXCEPT !.date_of_birth = Text("2000-01-02"),
                               !.stipend_amount = Text("0.00"),
                               !.budget_percent = Text("5.00")] }

WidenedPayments ==
    { [amount |-> Text("5.00"), receipt_number |-> Text("r-1"), notes |-> NullVal] }

LegacyData ==
    [payers : [PayerIds -> LegacyPayers],
     payments : [PaymentIds -> LegacyPayments],
     audit_logs : [AuditIds -> LegacyAuditLogs]]
    \cup [payers : [PayerIds -> WidenedPayers],
          payments : [PaymentIds -> WidenedPayments],
          audit_logs : [AuditIds -> LegacyAuditLogs]]

Init ==
    /\ users \in { [u \in Users |-> IF u = "u1" THEN LegacyUser("admin", "p0")
                                    ELSE second] :
                   second \in {LegacyUser("operator", "p0"), NoUser} }
    /\ data \in LegacyData
    /\ cookies = [c \in Clients |-> NoCookies]
    /\ req = [c \in Clients |-> IdleReq]
    /\ resp = NoResponse
    /\ observe = {}
    /\ codec = IdleCodec
    /\ repo = IdleRepo
    /\ nextKey = 0
    /\ nextSalt = 0

\* generate_salt(): 16 random bytes, which collide with no salt handed out
\* before.
generate_salt == nextSalt + 1

(***************************************************************************)
(* POST /auth/login                                                        *)
(***************************************************************************)
\* LoginOutcome when is_active is not tested.
LoginOutcome_ActiveNotTested(user, password) ==
    CASE ~user.exists \/ ~verify_password(password, user.hashed_password)
            -> "unauthorized"
      [] user.encrypted_master_key = NoWrap -> "first"
      [] unwrap_master_key(user.encrypted_master_key,
                           derive_user_key(password, user.key_salt)) = NoKey
            -> "decrypt_failed"
      [] OTHER -> "normal"

\* Which way login goes for the row it loaded and the password it was given
\* (auth_api.py lines 91-130).
LoginOutcome(user, password) ==
    CASE ~user.exists \/ ~verify_password(password, user.hashed_password)
            -> "unauthorized"
      [] ~user.is_active -> "forbidden"
      [] user.encrypted_master_key = NoWrap -> "first"
      [] unwrap_master_key(user.encrypted_master_key,
                           derive_user_key(password, user.key_salt)) = NoKey
            -> "decrypt_failed"
      [] OTHER -> "normal"

\* The HTTPException login raises, if any.
LoginStatus(outcome) ==
    CASE outcome = "unauthorized" -> "401 Incorrect username or password"
      [] outcome = "forbidden" -> "403 User account is deactivated"
      [] outcome = "decrypt_failed" -> "401 Failed to decrypt encryption key"
      [] OTHER -> "pending"

\* LoginRequest when a key that does not unwrap does not stop the login.
LoginRequest_NoReject(username, password, outcome, key, salt) ==
    IF outcome = "first"
    THEN [pc |-> "sweep", user |-> username, password |-> password,
          first |-> TRUE, master_key |-> key, salt |-> salt, snap |-> NoData]
    ELSE [pc |-> "finish", user |-> username, password |-> password,
          first |-> FALSE,
          master_key |-> unwrap_master_key(
                             users[username].encrypted_master_key,
                             derive_user_key(password, users[username].key_salt)),
          salt |-> NoSalt, snap |-> NoData]

\* What login holds when it first talks to the store again: lines 88-117 run
\* on the one row loaded by get_by_username.
LoginRequest(username, password, outcome, key, salt) ==
    CASE outcome = "first" ->
            [pc |-> "sweep", user |-> username, password |-> password,
             first |-> TRUE, master_key |-> key, salt |-> salt, snap |-> NoData]
      [] outcome = "normal" ->
            [pc |-> "finish", user |-> username, password |-> password,
             first |-> FALSE,
             master_key |-> unwrap_master_key(
                                users[username].encrypted_master_key,
                                derive_user_key(password, users[username].key_salt)),
             salt |-> NoSalt, snap |-> NoData]
      [] OTHER -> IdleReq

LoginStart(c, username, password) ==
    LET outcome == LoginOutcome(users[username], password) IN
    /\ req[c].pc = "idle"
    /\ outcome = "first" => nextKey < MaxKeys /\ nextSalt < MaxSalts
    /\ req' = [req EXCEPT ![c] = LoginRequest(username, password, outcome,
                                              nextKey + 1, generate_salt)]
    /\ resp' = IF LoginStatus(outcome) = "pending"
               THEN NoResponse
               ELSE Response("login", LoginStatus(outcome))
    /\ nextKey' = IF outcome = "first" THEN nextKey + 1 ELSE nextKey
    /\ nextSalt' = IF outcome = "first" THEN nextSalt + 1 ELSE nextSalt
    /\ UNCHANGED <<users, data, cookies, observe, codec, repo>>

\* _migrate_encrypt_existing_data lines 37-71: the rows are loaded into the
\* Session and encrypted there (autoflush is off, nothing is written yet).
LoginSweep(c) ==
    /\ req[c].pc = "sweep"
    /\ req' = [req EXCEPT ![c].pc = "commit", ![c].snap = data]
    /\ resp' = NoResponse
    /\ UNCHANGED <<users, data, cookies, observe, codec, repo, nextKey, nextSalt>>

\* An UPDATE of the unit of work carries the columns whose value differs
\* from the loaded one.
FlushRow(stored, loaded, new) ==
    [f \in DOMAIN stored |-> IF new[f] # loaded[f] THEN new[f] ELSE stored[f]]

FlushData(stored, loaded, new) ==
    [payers |-> [i \in PayerIds |->
                    FlushRow(stored.payers[i], loaded.payers[i], new.payers[i])],
     payments |-> [i \in PaymentIds |->
                    FlushRow(stored.payments[i], loaded.payments[i], new.payments[i])],
     audit_logs |-> [i \in AuditIds |->
                    FlushRow(stored.audit_logs[i], loaded.audit_logs[i],
                             new.audit_logs[i])]]

\* The rows db.commit() of line 73 writes for the sweep.
SweepCommitData(stored, request) ==
    FlushData(stored, request.snap, MigrateData(request.snap, request.master_key))

\* SweepCommitUser when the wrapped key is not part of the sweep's commit.
SweepCommitUser_NotInCommit(stored, request) == stored

\* SweepCommitUser when the salt is not written with the wrapped key.
SweepCommitUser_WithoutSalt(stored, request) ==
    [stored EXCEPT
        !.encrypted_master_key =
            wrap_master_key(request.master_key,
                            derive_user_key(request.password, request.salt))]

\* The operator row db.commit() of line 73 writes: lines 109-110 are pending
\* in the same Session.
SweepCommitUser(stored, request) ==
    [stored EXCEPT
        !.encrypted_master_key =
            wrap_master_key(request.master_key,
                            derive_user_key(request.password, request.salt)),
        !.key_salt = request.salt]

\* Line 73.  An UPDATE that matches no row (the account was deleted) raises
\* StaleDataError and the transaction is rolled back.
LoginCommit(c) ==
    /\ req[c].pc = "commit"
    /\ IF users[req[c].user].exists
       THEN /\ users' = [users EXCEPT ![req[c].user] = SweepCommitUser(@, req[c])]
            /\ data' = SweepCommitData(data, req[c])
            /\ req' = [req EXCEPT ![c].pc = "finish"]
            /\ resp' = NoResponse
       ELSE /\ req' = [req EXCEPT ![c] = IdleReq]
            /\ resp' = Response("login", "500")
            /\ UNCHANGED <<users, data>>
    /\ UNCHANGED <<cookies, observe, codec, repo, nextKey, nextSalt>>

\* datetime.utcnow(): last_login is kept as NULL (0) or set (1).
Now(previous) == 1

\* LoginCookies with the Master Key itself as the cookie value: a token that
\* opens without the server secret.
LoginCookies_KeyInClear(username, master_key) ==
    [access_token |-> create_access_token(username),
     refresh_token |-> create_refresh_token(username),
     encryption_key |-> [mk |-> master_key,
                         sk |-> _derive_session_fernet_key(""),
                         sound |-> TRUE]]

\* The three cookies login sets (lines 137-167).
LoginCookies(username, master_key) ==
    [access_token |-> create_access_token(username),
     refresh_token |-> create_refresh_token(username),
     encryption_key |-> encrypt_session_key(master_key)]

\* Lines 133-172.
LoginFinish(c) ==
    /\ req[c].pc = "finish"
    /\ IF users[req[c].user].exists
       THEN /\ users' = [users EXCEPT ![req[c].user].last_login = Now(@)]
            /\ cookies' = [cookies EXCEPT
                              ![c] = LoginCookies(req[c].user, req[c].master_key)]
            /\ resp' = Response("login", "200")
       ELSE /\ resp' = Response("login", "500")
            /\ UNCHANGED <<users, cookies>>
    /\ req' = [req EXCEPT ![c] = IdleReq]
    /\ UNCHANGED <<data, observe, codec, repo, nextKey, nextSalt>>

\* get_db: whatever ends the handler early (an exception, a cancelled
\* request, a killed worker) closes the Session, which rolls back what it
\* had not committed.
Abort(c) ==
    /\ req[c].pc # "idle"
    /\ req' = [req EXCEPT ![c] = IdleReq]
    /\ resp' = Response(req[c].pc, "aborted")
    /\ UNCHANGED <<users, data, cookies, observe, codec, repo, nextKey, nextSalt>>

(***************************************************************************)
(* Dependencies of the authenticated endpoints.                            *)
(***************************************************************************)
\* get_current_user (dependencies.py): the account the access token names,
\* as a status when the request is turned away.
CurrentUserStatus(jar) ==
    CASE jar.access_token.type # "access" -> "401 Not authenticated"
      [] ~users[jar.access_token.sub].exists -> "401 User not found"
      [] ~users[jar.access_token.sub].is_active -> "403 User is deactivated"
      [] OTHER -> "ok"

\* get_encryption_key: the Master Key of the session, recovered from the
\* encryption_key cookie with the server secret; NoKey when the cookie is
\* missing or does not unseal (the request is then answered 401).
get_encryption_key(jar) == decrypt_session_key(jar.encryption_key)

(***************************************************************************)
(* POST /auth/change-password                                              *)
(***************************************************************************)
\* ChangePasswordOutcome when the current password is not verified.
ChangePasswordOutcome_NoVerify(jar, current_password) ==
    CASE CurrentUserStatus(jar) # "ok" -> CurrentUserStatus(jar)
      [] get_encryption_key(jar) = NoKey -> "401 Encryption key not found"
      [] OTHER -> "pending"

ChangePasswordOutcome(jar, current_password) ==
    CASE CurrentUserStatus(jar) # "ok" -> CurrentUserStatus(jar)
      [] get_encryption_key(jar) = NoKey -> "401 Encryption key not found"
      \* 400, with a detail in Russian: "the current password is incorrect"
      [] ~verify_password(current_password,
                          users[jar.access_token.sub].hashed_password)
            -> "400 Current password is incorrect"
      [] OTHER -> "pending"

\* The dependencies and lines 383-392: current_user is loaded, the current
\* password is verified against the loaded hash, the session's Master Key is
\* wrapped under the new password and a new salt.
ChangePasswordStart(c, current_password, new_password) ==
    LET outcome == ChangePasswordOutcome(cookies[c], current_password) IN
    /\ req[c].pc = "idle"
    /\ outcome = "pending" => nextSalt < MaxSalts
    /\ req' = [req EXCEPT ![c] =
                 IF outcome = "pending"
                 THEN [pc |-> "rewrap", user |-> cookies[c].access_token.sub,
                       password |-> new_password, first |-> FALSE,
                       master_key |-> get_encryption_key(cookies[c]),
                       salt |-> generate_salt, snap |-> NoData]
                 ELSE IdleReq]
    /\ resp' = IF outcome = "pending"
               THEN NoResponse
               ELSE Response("change_password", outcome)
    /\ nextSalt' = IF outcome = "pending" THEN nextSalt + 1 ELSE nextSalt
    /\ UNCHANGED <<users, data, cookies, observe, codec, repo, nextKey>>

\* The operator row lines 396-399 write.
RewrapUser(stored, request) ==
    [stored EXCEPT
        !.hashed_password = get_password_hash(request.password),
        !.encrypted_master_key =
            wrap_master_key(request.master_key,
                            derive_user_key(request.password, request.salt)),
        !.key_salt = request.salt]

\* Lines 394-412.
ChangePasswordCommit(c) ==
    /\ req[c].pc = "rewrap"
    /\ IF users[req[c].user].exists
       THEN /\ users' = [users EXCEPT ![req[c].user] = RewrapUser(@, req[c])]
            /\ cookies' = [cookies EXCEPT ![c].encryption_key =
                              encrypt_session_key(req[c].master_key)]
            /\ resp' = Response("change_password", "200")
       ELSE /\ resp' = Response("change_password", "500")
            /\ UNCHANGED <<users, cookies>>
    /\ req' = [req EXCEPT ![c] = IdleReq]
    /\ UNCHANGED <<data, observe, codec, repo, nextKey, nextSalt>>

(***************************************************************************)
(* POST /auth/users                                                        *)
(***************************************************************************)
CreateUserOutcome(jar, username) ==
    CASE CurrentUserStatus(jar) # "ok" -> CurrentUserStatus(jar)
      [] users[jar.access_token.sub].role # "admin" -> "403 Access denied"
      [] get_encryption_key(jar) = NoKey -> "401 Encryption key not found"
      [] users[username].exists -> "400 Username already registered"
      [] OTHER -> "200"

\* NewUser when the account is created without a wrapped key.
NewUser_NotEnrolled(password, role, master_key, salt) ==
    [exists |-> TRUE, is_active |-> TRUE, role |-> role,
     hashed_password |-> get_password_hash(password),
     encrypted_master_key |-> NoWrap, key_salt |-> NoSalt, last_login |-> 0]

\* The row lines 289-301 build.
NewUser(password, role, master_key, salt) ==
    [exists |-> TRUE, is_active |-> TRUE, role |-> role,
     hashed_password |-> get_password_hash(password),
     encrypted_master_key |->
         wrap_master_key(master_key, derive_user_key(password, salt)),
     key_salt |-> salt, last_login |-> 0]

create_user(c, username, password, role) ==
    LET outcome == CreateUserOutcome(cookies[c], username) IN
    /\ req[c].pc = "idle"
    /\ outcome = "200" => nextSalt < MaxSalts
    /\ users' = IF outcome = "200"
                THEN [users EXCEPT ![username] =
                         NewUser(password, role, get_encryption_key(cookies[c]),
                                 generate_salt)]
                ELSE users
    /\ resp' = Response("create_user", outcome)
    /\ nextSalt' = IF outcome = "200" THEN nextSalt + 1 ELSE nextSalt
    /\ UNCHANGED <<data, cookies, req, observe, codec, repo, nextKey>>

(***************************************************************************)
(* PUT /auth/users/{user_id}                                               *)
(***************************************************************************)
UpdateUserOutcome(jar, target) ==
    CASE CurrentUserStatus(jar) # "ok" -> CurrentUserStatus(jar)
      [] users[jar.access_token.sub].role # "admin" -> "403 Access denied"
      [] ~users[target].exists -> "404 User not found"
      [] OTHER -> "200"

\* Lines 335-342: of the columns of the model the request carries is_active
\* (email, full_name and role are left as they are).
UpdatedUser(stored, is_active) == [stored EXCEPT !.is_active = is_active]

update_user(c, target, is_active) ==
    LET outcome == UpdateUserOutcome(cookies[c], target) IN
    /\ req[c].pc = "idle"
    /\ users' = IF outcome = "200"
                THEN [users EXCEPT ![target] = UpdatedUser(@, is_active)]
                ELSE users
    /\ resp' = Response("update_user", outcome)
    /\ UNCHANGED <<data, cookies, req, observe, codec, repo, nextKey, nextSalt>>

(***************************************************************************)
(* DELETE /auth/users/{user_id}                                            *)
(***************************************************************************)
\* require_admin and lines 352-356: what the request is answered before the
\* handler reads the account to delete; "pending" when it goes on.
DeleteUserOutcome(jar, target) ==
    CASE CurrentUserStatus(jar) # "ok" -> CurrentUserStatus(jar)
      [] users[jar.access_token.sub].role # "admin" -> "403 Access denied"
      [] target = jar.access_token.sub -> "400 Cannot delete your own account"
      [] OTHER -> "pending"

\* The dependencies of the request (get_db, require_admin) and the test of
\* lines 352-356: current_user is loaded and compared with user_id.
DeleteUserStart(c, target) ==
    LET outcome == DeleteUserOutcome(cookies[c], target) IN
    /\ req[c].pc = "idle"
    /\ req' = [req EXCEPT ![c] =
                 IF outcome = "pending"
                 THEN [IdleReq EXCEPT !.pc = "delete", !.user = target]
                 ELSE IdleReq]
    /\ resp' = IF outcome = "pending"
               THEN NoResponse
               ELSE Response("delete_user", outcome)
    /\ UNCHANGED <<users, data, cookies, observe, codec, repo, nextKey, nextSalt>>

\* Lines 357-365: the account is read, a missing one is answered 404, a
\* found one is deleted and the deletion committed.
DeleteUserCommit(c) ==
    /\ req[c].pc = "delete"
    /\ IF users[req[c].user].exists
       THEN /\ users' = [users EXCEPT ![req[c].user] = NoUser]
            /\ resp' = Response("delete_user", "204")
       ELSE /\ resp' = Response("delete_user", "404 User not found")
            /\ UNCHANGED users
    /\ req' = [req EXCEPT ![c] = IdleReq]
    /\ UNCHANGED <<data, cookies, observe, codec, repo, nextKey, nextSalt>>

(***************************************************************************)
(* POST /auth/refresh                                                      *)
(***************************************************************************)
RefreshOutcome(jar) ==
    CASE jar.refresh_token = NoToken -> "401 Refresh token not found"
      [] jar.refresh_token.type # "refresh" -> "401 Invalid refresh token"
      [] \/ ~users[jar.refresh_token.sub].exists
         \/ ~users[jar.refresh_token.sub].is_active
            -> "401 User not found or inactive"
      [] OTHER -> "200"

\* RefreshCookies when the response sets no encryption_key cookie and the
\* client is left without one.
RefreshCookies_DropsEncryptionKey(jar) ==
    [access_token |-> create_access_token(jar.refresh_token.sub),
     refresh_token |-> create_refresh_token(jar.refresh_token.sub),
     encryption_key |-> NoCookie]

\* The jar after the response of lines 208-238: the two tokens are set anew
\* and the encryption_key cookie is set to the value the request carried,
\* if it carried one.
RefreshCookies(jar) ==
    [access_token |-> create_access_token(jar.refresh_token.sub),
     refresh_token |-> create_refresh_token(jar.refresh_token.sub),
     encryption_key |-> IF jar.encryption_key # NoCookie
                        THEN jar.encryption_key
                        ELSE NoCookie]

refresh_token(c) ==
    LET outcome == RefreshOutcome(cookies[c]) IN
    /\ req[c].pc = "idle"
    /\ cookies' = IF outcome = "200"
                  THEN [cookies EXCEPT ![c] = RefreshCookies(@)]
                  ELSE cookies
    /\ resp' = Response("refresh", outcome)
    /\ UNCHANGED <<users, data, req, observe, codec, repo, nextKey, nextSalt>>

\* The browser drops a cookie: the access_token after its max_age of 60
\* minutes (the other two live 7 days), or the encryption_key cookie, which
\* a session begun before the cookie existed never had.
LoseCookie(c, name) ==
    /\ req[c].pc = "idle"
    /\ cookies[c].refresh_token # NoToken
    /\ cookies' = IF name = "access_token"
                  THEN [cookies EXCEPT ![c].access_token = NoToken]
                  ELSE [cookies EXCEPT ![c].encryption_key = NoCookie]
    /\ cookies' # cookies
    /\ resp' = NoResponse
    /\ UNCHANGED <<users, data, req, observe, codec, repo, nextKey, nextSalt>>

(***************************************************************************)
(* POST /auth/logout                                                       *)
(***************************************************************************)
\* logout when the response leaves the encryption_key cookie in place.
logout_KeepsEncryptionKey(c) ==
    /\ req[c].pc = "idle"
    /\ cookies' = [cookies EXCEPT ![c].access_token = NoToken,
                                  ![c].refresh_token = NoToken]
    /\ resp' = Response("logout", "200")
    /\ UNCHANGED <<users, data, req, observe, codec, repo, nextKey, nextSalt>>

\* Lines 246-252: the response deletes the three cookies; the handler takes
\* no database session.
logout(c) ==
    /\ req[c].pc = "idle"
    /\ cookies' = [cookies EXCEPT ![c] = NoCookies]
    /\ resp' = Response("logout", "200")
    /\ UNCHANGED <<users, data, req, observe, codec, repo, nextKey, nextSalt>>

Next ==
    \E c \in Clients :
        \/ \E u \in Users, p \in Passwords : LoginStart(c, u, p)
        \/ LoginSweep(c)
        \/ LoginCommit(c)
        \/ LoginFinish(c)
        \/ \E p \in Passwords, q \in Passwords : ChangePasswordStart(c, p, q)
        \/ ChangePasswordCommit(c)
        \/ \E u \in Users, p \in Passwords, r \in {"operator"} :
              create_user(c, u, p, r)
        \/ logout(c)
        \/ Abort(c)

Spec == Init /\ [][Next]_vars

(***************************************************************************)
(* The same system with the responses to the login requests recorded (the  *)
(* handler's own, and the end of a request cut short in its migration),    *)
(* started from one dataset.                                               *)
(***************************************************************************)
LoginOps == {"login", "sweep", "commit"}

ObsInit ==
    /\ users \in { [u \in Users |-> IF u = "u1" THEN LegacyUser("admin", "p0")
                                    ELSE second] :
                   second \in {LegacyUser("operator", "p0"), NoUser} }
    /\ data \in [payers : [PayerIds -> {FullPayer}],
                 payments : [PaymentIds -> LegacyPayments],
                 audit_logs : [AuditIds -> LegacyAuditLogs]]
    /\ cookies = [c \in Clients |-> NoCookies]
    /\ req = [c \in Clients |-> IdleReq]
    /\ resp = NoResponse
    /\ observe = LoginOps
    /\ codec = IdleCodec
    /\ repo = IdleRepo
    /\ nextKey = 0
    /\ nextSalt = 0

ObsSpec == ObsInit /\ [][Next]_vars

(***************************************************************************)
(* The same system with the administration of the accounts added, started  *)
(* from one dataset.                                                       *)
(***************************************************************************)
AdminInit ==
    /\ users \in { [u \in Users |-> IF u = "u1" THEN LegacyUser("admin", "p0")
                                    ELSE second] :
                   second \in {LegacyUser("operator", "p0"), NoUser} }
    /\ data \in [payers : [PayerIds -> {FullPayer}],
                 payments : [PaymentIds -> LegacyPayments],
                 audit_logs : [AuditIds -> LegacyAuditLogs]]
    /\ cookies = [c \in Clients |-> NoCookies]
    /\ req = [c \in Clients |-> IdleReq]
    /\ resp = NoResponse
    /\ observe = {}
    /\ codec = IdleCodec
    /\ repo = IdleRepo
    /\ nextKey = 0
    /\ nextSalt = 0

AdminNext ==
    \/ Next
    \/ \E c \in Clients, u \in Users, a \in BOOLEAN : update_user(c, u, a)

AdminSpec == AdminInit /\ [][AdminNext]_vars

(***************************************************************************)
(* The sessions of the clients over time: the system with token refresh    *)
(* and the loss of cookies added, the responses to refresh recorded,       *)
(* started with one account.                                               *)
(***************************************************************************)
SessionInit ==
    /\ users = [u \in Users |-> IF u = "u1" THEN LegacyUser("admin", "p0")
                                 ELSE NoUser]
    /\ data \in [payers : [PayerIds -> {FullPayer}],
                 payments : [PaymentIds -> LegacyPayments],
                 audit_logs : [AuditIds -> LegacyAuditLogs]]
    /\ cookies = [c \in Clients |-> NoCookies]
    /\ req = [c \in Clients |-> IdleReq]
    /\ resp = NoResponse
    /\ observe = {"refresh"}
    /\ codec = IdleCodec
    /\ repo = IdleRepo
    /\ nextKey = 0
    /\ nextSalt = 0

SessionNext ==
    \/ Next
    \/ \E c \in Clients : refresh_token(c)
    \/ \E c \in Clients, name \in {"access_token", "encryption_key"} :
          LoseCookie(c, name)

SessionSpec == SessionInit /\ [][SessionNext]_vars

(***************************************************************************)
(* The same system started on a database whose rows are partly sealed: a   *)
(* Master Key was minted before (the account that held it is gone), and a  *)
(* row holds tokens under it beside plaintext; or a legacy payer whose     *)
(* last_name is the empty string.                                          *)
(***************************************************************************)
EmptyNamePayer == [FullPayer EXCEPT !.last_name = Text("")]

MixedPayers ==
    { EmptyNamePayer,
      [FullPayer EXCEPT !.last_name = encrypt_field(Text("ivanov"), 1)],
      [FullPayer EXCEPT !.first_name = encrypt_field(Text("ivan"), 1)] }

MixedPayments ==
    { [amount |-> Dec("5.00"), receipt_number |-> Text("r-1"), notes |-> NullVal],
      [amount |-> encrypt_decimal(Dec("5.00"), 1),
       receipt_number |-> Text("r-1"), notes |-> NullVal] }

MixedAuditLogs ==
    { [old_values |-> encrypt_field(Text("{old}"), 1),
       new_values |-> Text("{json}")] }

MixedInit ==
    /\ users = [u \in Users |-> IF u = "u1" THEN LegacyUser("admin", "p0")
                                 ELSE NoUser]
    /\ data \in [payers : [PayerIds -> MixedPayers],
                 payments : [PaymentIds -> MixedPayments],
                 audit_logs : [AuditIds -> MixedAuditLogs]]
    /\ cookies = [c \in Clients |-> NoCookies]
    /\ req = [c \in Clients |-> IdleReq]
    /\ resp = NoResponse
    /\ observe = {}
    /\ codec = IdleCodec
    /\ repo = IdleRepo
    /\ nextKey = 1
    /\ nextSalt = 0

MixedSpec == MixedInit /\ [][Next]_vars

(***************************************************************************)
(* The system with the responses to login and change-password recorded,    *)
(* started with the administrator u1 and, in one of the two initial        *)
(* states, an operator u2 that was deactivated before the encryption was   *)
(* introduced.                                                             *)
(***************************************************************************)
DeactivatedUser(role, password) ==
    [LegacyUser(role, password) EXCEPT !.is_active = FALSE]

RejectInit ==
    /\ users \in { [u \in Users |-> IF u = "u1" THEN LegacyUser("admin", "p0")
                                    ELSE second] :
                   second \in {DeactivatedUser("operator", "p0"), NoUser} }
    /\ data \in [payers : [PayerIds -> {FullPayer}],
                 payments : [PaymentIds -> LegacyPayments],
                 audit_logs : [AuditIds -> LegacyAuditLogs]]
    /\ cookies = [c \in Clients |-> NoCookies]
    /\ req = [c \in Clients |-> IdleReq]
    /\ resp = NoResponse
    /\ observe = {"login", "change_password"}
    /\ codec = IdleCodec
    /\ repo = IdleRepo
    /\ nextKey = 0
    /\ nextSalt = 0

RejectSpec == RejectInit /\ [][Next]_vars

(***************************************************************************)
(* The system with the deletion of accounts added, started after the first *)
(* login of the administrator u1 and its sweep: u1 wraps Master Key 1 and  *)
(* the rows are sealed under it; u2 is either a second administrator that  *)
(* u1 created, wrapping the same key, or an operator account of before the *)
(* encryption that has not logged in yet.                                  *)
(***************************************************************************)
DeleteInit ==
    /\ users \in { [u \in Users |-> IF u = "u1"
                                     THEN NewUser("p0", "admin", 1, 1)
                                     ELSE second] :
                   second \in {NewUser("p0", "admin", 1, 2),
                               LegacyUser("operator", "p0")} }
    /\ data \in { MigrateData(d, 1) :
                    d \in [payers : [PayerIds -> {FullPayer}],
                           payments : [PaymentIds -> LegacyPayments],
                           audit_logs : [AuditIds -> LegacyAuditLogs]] }
    /\ cookies = [c \in Clients |-> NoCookies]
    /\ req = [c \in Clients |-> IdleReq]
    /\ resp = NoResponse
    /\ observe = {}
    /\ codec = IdleCodec
    /\ repo = IdleRepo
    /\ nextKey = 1
    /\ nextSalt = 2

DeleteNext ==
    \/ Next
    \/ \E c \in Clients, u \in Users : DeleteUserStart(c, u)
    \/ \E c \in Clients : DeleteUserCommit(c)

DeleteSpec == DeleteInit /\ [][DeleteNext]_vars

(***************************************************************************)
(* The same system with the handlers running to completion: a request that *)
(* has been accepted and can take its next step takes it sooner or later   *)
(* (the worker executes the handler's statements one after the other) or   *)
(* is ended.                                                               *)
(***************************************************************************)
FairSpec ==
    /\ Init
    /\ [][Next]_vars
    /\ \A c \in Clients :
          /\ WF_vars(LoginSweep(c))
          /\ WF_vars(LoginCommit(c))
          /\ WF_vars(LoginFinish(c))
          /\ WF_vars(ChangePasswordCommit(c))

(***************************************************************************)
(* The field codec, the key wrap and the session seal on their own: one    *)
(* call of a seal function on drawn arguments (or, for a field, the value  *)
(* kept as the legacy rows keep it), possibly damage to what it returned,  *)
(* then one call of an open function.                                      *)
(***************************************************************************)
FieldFns == {"field", "decimal", "date"}

\* The arguments each seal function accepts (Optional[str], Optional[Decimal],
\* Optional[date]).
CodecValues(fn) ==
    CASE fn = "field" -> {NullVal, Text(""), Text("ivanov")}
      [] fn = "decimal" -> {NullVal, Dec("0.00"), Dec("5.00")}
      [] fn = "date" -> {NullVal, Date("2000-01-02")}
      [] OTHER -> {}

CodecSealFn(fn, value, key) ==
    CASE fn = "field" -> encrypt_field(value, key)
      [] fn = "decimal" -> encrypt_decimal(value, key)
      [] OTHER -> encrypt_date(value, key)

CodecOpenFn(fn, token, key) ==
    CASE fn = "field" -> decrypt_field(token, key)
      [] fn = "decimal" -> decrypt_decimal(token, key)
      [] OTHER -> decrypt_date(token, key)

\* A token or wrapped key after a character of it was cut or changed: the
\* HMAC of what is left verifies under no key.
DamageToken(token) == [token EXCEPT !.layers = <<BadKey>> \o Tail(@)]
DamageWrap(wrapped_key) == [wrapped_key EXCEPT !.sound = FALSE]

\* The server secrets a session token may have been sealed under: this
\* server's and another one.
SessionSecrets == {SECRET_KEY, "another-secret"}

\* What encrypt_session_key returns where settings.SECRET_KEY is secret.
SessionTokenUnder(master_key, secret) ==
    [encrypt_session_key(master_key)
        EXCEPT !.sk = _derive_session_fernet_key(secret)]

DamageCookie(token) == [token EXCEPT !.sound = FALSE]

CodecInit ==
    /\ codec \in
          UNION { { [IdleCodec EXCEPT !.pc = "input", !.fn = fn, !.open = g,
                                      !.value = val, !.k1 = a, !.k2 = b] :
                      val \in CodecValues(fn), g \in FieldFns,
                      a \in KeyIds, b \in KeyIds } :
                  fn \in FieldFns }
          \cup { [IdleCodec EXCEPT !.pc = "input", !.fn = "session",
                                   !.master_key = mk, !.secret = x] :
                    mk \in KeyIds, x \in SessionSecrets }
          \cup { [IdleCodec EXCEPT !.pc = "input", !.fn = "wrap",
                                   !.master_key = mk,
                                   !.pw1 = p, !.salt1 = s,
                                   !.pw2 = q, !.salt2 = t] :
                    mk \in KeyIds, p \in Passwords, q \in Passwords,
                    s \in 1..MaxSalts, t \in 1..MaxSalts }
    /\ users = [u \in Users |-> NoUser]
    /\ data = NoData
    /\ cookies = [c \in Clients |-> NoCookies]
    /\ req = [c \in Clients |-> IdleReq]
    /\ resp = NoResponse
    /\ observe = {}
    /\ repo = IdleRepo
    /\ nextKey = 0
    /\ nextSalt = 0

CodecRest ==
    <<users, data, cookies, req, resp, observe, repo, nextKey, nextSalt>>

CodecSeal ==
    /\ codec.pc = "input" /\ codec.fn \in FieldFns
    /\ codec' = [codec EXCEPT
                    !.pc = "sealed",
                    !.token = CodecSealFn(codec.fn, codec.value, codec.k1)]
    /\ UNCHANGED CodecRest

\* The value as a legacy row holds it, never sealed.
CodecStore ==
    /\ codec.pc = "input" /\ codec.fn \in FieldFns
    /\ codec' = [codec EXCEPT !.pc = "sealed", !.stored = TRUE,
                               !.token = codec.value]
    /\ UNCHANGED CodecRest

CodecSealSession ==
    /\ codec.pc = "input" /\ codec.fn = "session"
    /\ codec' = [codec EXCEPT
                    !.pc = "sealed",
                    !.cookie = SessionTokenUnder(codec.master_key, codec.secret)]
    /\ UNCHANGED CodecRest

CodecWrap ==
    /\ codec.pc = "input" /\ codec.fn = "wrap"
    /\ codec' = [codec EXCEPT
                    !.pc = "sealed",
                    !.wrapped = wrap_master_key(
                                    codec.master_key,
                                    derive_user_key(codec.pw1, codec.salt1))]
    /\ UNCHANGED CodecRest

CodecDamage ==
    /\ codec.pc = "sealed" /\ ~codec.damaged
    /\ codec.fn \in FieldFns => IsToken(codec.token)
    /\ codec' = CASE codec.fn \in FieldFns ->
                        [codec EXCEPT !.damaged = TRUE,
                                      !.token = DamageToken(codec.token)]
                   [] codec.fn = "session" ->
                        [codec EXCEPT !.damaged = TRUE,
                                      !.cookie = DamageCookie(codec.cookie)]
                   [] OTHER ->
                        [codec EXCEPT !.damaged = TRUE,
                                      !.wrapped = DamageWrap(codec.wrapped)]
    /\ UNCHANGED CodecRest

CodecOpen ==
    /\ codec.pc = "sealed" /\ codec.fn \in FieldFns
    /\ codec' = [codec EXCEPT
                    !.pc = "opened",
                    !.out = CodecOpenFn(codec.open, codec.token, codec.k2)]
    /\ UNCHANGED CodecRest

CodecUnwrap ==
    /\ codec.pc = "sealed" /\ codec.fn = "wrap"
    /\ codec' = [codec EXCEPT
                    !.pc = "opened",
                    !.unwrapped = unwrap_master_key(
                                      codec.wrapped,
                                      derive_user_key(codec.pw2, codec.salt2))]
    /\ UNCHANGED CodecRest

CodecUnsealSession ==
    /\ codec.pc = "sealed" /\ codec.fn = "session"
    /\ codec' = [codec EXCEPT !.pc = "opened",
                               !.session = decrypt_session_key(codec.cookie)]
    /\ UNCHANGED CodecRest

CodecNext ==
    \/ CodecSeal
    \/ CodecStore
    \/ CodecSealSession
    \/ CodecUnsealSession
    \/ CodecWrap
    \/ CodecDamage
    \/ CodecOpen
    \/ CodecUnwrap

CodecSpec == CodecInit /\ [][CodecNext]_vars

(***************************************************************************)
(* infrastructure/repositories.py: the write path of PayerRepository and   *)
(* PaymentRepository, one repository call per step, for a repository built *)
(* with the session's key.  The sensitive columns are TEXT.                *)
(***************************************************************************)
\* Python's  a or b.
Or(a, b) == IF Truthy(a) THEN a ELSE b

_encrypt_payer(payer, key) ==
    [last_name |-> encrypt_field(payer.last_name, key),
     first_name |-> encrypt_field(payer.first_name, key),
     middle_name |-> encrypt_field(payer.middle_name, key),
     date_of_birth |-> IF ~IsStr(payer.date_of_birth)
                       THEN encrypt_date(payer.date_of_birth, key)
                       ELSE encrypt_field(payer.date_of_birth, key),
     email |-> encrypt_field(payer.email, key),
     phone |-> encrypt_field(payer.phone, key),
     telegram |-> encrypt_field(payer.telegram, key),
     vk |-> encrypt_field(payer.vk, key),
     stipend_amount |-> IF ~IsNone(payer.stipend_amount)
                        THEN encrypt_decimal(payer.stipend_amount, key)
                        ELSE NullVal,
     budget_percent |-> IF ~IsNone(payer.budget_percent)
                        THEN encrypt_decimal(payer.budget_percent, key)
                        ELSE NullVal,
     notes |-> encrypt_field(payer.notes, key)]

_decrypt_payer(payer, key) ==
    [last_name |-> Or(decrypt_field(payer.last_name, key), payer.last_name),
     first_name |-> Or(decrypt_field(payer.first_name, key), payer.first_name),
     middle_name |-> decrypt_field(payer.middle_name, key),
     date_of_birth |-> decrypt_date(payer.date_of_birth, key),
     email |-> decrypt_field(payer.email, key),
     phone |-> decrypt_field(payer.phone, key),
     telegram |-> decrypt_field(payer.telegram, key),
     vk |-> decrypt_field(payer.vk, key),
     stipend_amount |-> decrypt_decimal(payer.stipend_amount, key),
     budget_percent |-> decrypt_decimal(payer.budget_percent, key),
     notes |-> decrypt_field(payer.notes, key)]

_encrypt_payment(payment, key) ==
    [amount |-> IF ~IsNone(payment.amount)
                THEN encrypt_decimal(payment.amount, key)
                ELSE payment.amount,
     receipt_number |-> encrypt_field(payment.receipt_number, key),
     notes |-> encrypt_field(payment.notes, key)]

_decrypt_payment(payment, key) ==
    [amount |-> decrypt_decimal(payment.amount, key),
     receipt_number |-> decrypt_field(payment.receipt_number, key),
     notes |-> decrypt_field(payment.notes, key)]

\* How each sensitive column is decoded.
PayerCodec ==
    [last_name |-> "field", first_name |-> "field", middle_name |-> "field",
     date_of_birth |-> "date", email |-> "field", phone |-> "field",
     telegram |-> "field", vk |-> "field", stipend_amount |-> "decimal",
     budget_percent |-> "decimal", notes |-> "field"]
PaymentCodec ==
    [amount |-> "decimal", receipt_number |-> "field", notes |-> "field"]

\* The entities a caller hands to create: PayerCreate, whose validator strips
\* the names after min_length=1 has passed (schemas.py lines 252-274), and
\* PaymentCreate (amount is required and gt=0).
NewPayers ==
    { [FullPayer EXCEPT !.last_name = n, !.date_of_birth = d,
                        !.stipend_amount = a] :
        n \in {Text("ivanov"), Text("")},
        d \in {NullVal, Date("2000-01-02")},
        a \in {NullVal, Dec("0.00"), Dec("5.00")} }

NewPayments ==
    { [amount |-> Dec("5.00"), receipt_number |-> r, notes |-> t] :
        r \in {NullVal, Text(""), Text("r-1")},
        t \in {NullVal, Text("note")} }

\* The fields a caller sets on a loaded entity before update (PayerUpdate,
\* PaymentUpdate with exclude_unset): "keep" leaves the attribute as loaded.
Keep == [typ |-> "keep", v |-> "", layers |-> <<>>]
Changed(loaded, value) == IF value = Keep THEN loaded ELSE value

PayerChanges ==
    [last_name : {Keep, Text(""), Text("petrov")},
     stipend_amount : {Keep, NullVal, Dec("0.00")}]

PaymentChanges ==
    [amount : {Keep, Dec("5.00")},
     receipt_number : {Keep, NullVal, Text("r-2")}]

\* Rows the repositories wrote earlier with the key k0.
StoredRows(k0) ==
    [payers |-> [i \in PayerIds |-> _encrypt_payer(FullPayer, k0)],
     payments |-> [i \in PaymentIds |->
                      _encrypt_payment(CHOOSE p \in LegacyPayments : TRUE, k0)],
     audit_logs |-> [i \in AuditIds |->
                        [old_values |-> NullVal,
                         new_values |-> encrypt_field(Text("{json}"), k0)]]]

RepoInit ==
    /\ users = [u \in Users |-> NoUser]
    /\ data \in {NoData} \cup {StoredRows(k0) : k0 \in KeyIds}
    /\ cookies = [c \in Clients |-> NoCookies]
    /\ req = [c \in Clients |-> IdleReq]
    /\ resp = NoResponse
    /\ observe = {}
    /\ codec = IdleCodec
    /\ repo \in {[IdleRepo EXCEPT !.pc = "idle", !.key = k] : k \in KeyIds}
    /\ nextKey = 0
    /\ nextSalt = 0

RepoRest ==
    <<users, cookies, req, resp, observe, codec, nextKey, nextSalt>>

\* self.db.commit() of a repository write, for the AuditLog objects the
\* Session still holds from AuditRepository.get_by_entity: the attributes
\* that differ from the loaded row are written with the same transaction.
CommitLogs(stored) ==
    IF repo.logs_loaded
    THEN [i \in AuditIds |-> FlushRow(stored[i], stored[i], repo.logs[i])]
    ELSE stored

\* PayerRepository.create, lines 303-310: encrypt, add, commit, refresh,
\* expunge, decrypt.
PayerRepository_create(payer) ==
    /\ repo.pc = "idle"
    /\ data.payers[1] = NoPayer
    /\ LET row == _encrypt_payer(payer, repo.key) IN
       /\ data' = [data EXCEPT !.payers[1] = row,
                                !.audit_logs = CommitLogs(@)]
       /\ repo' = [repo EXCEPT !.pc = "done", !.op = "payer.create",
                               !.logs_loaded = FALSE, !.logs = IdleRepo.logs,
                               !.entity = payer,
                               !.returned = _decrypt_payer(row, repo.key)]
    /\ UNCHANGED RepoRest

\* The payments of the payer as get_by_id leaves them in payer.payments:
\* loaded with the payer (joinedload), expunged and decrypted in place.
LoadedPayments(stored, key) ==
    [i \in PaymentIds |-> IF stored[i] = NoPayment
                          THEN NoPayment
                          ELSE _decrypt_payment(stored[i], key)]

\* PayerRepository.get_by_id, lines 200-214, at the start of a request.
PayerRepository_get_by_id ==
    /\ repo.pc \in {"idle", "done"}
    /\ data.payers[1] # NoPayer
    /\ repo' = [repo EXCEPT !.pc = "loaded", !.op = "payer.get_by_id",
                            !.entity = _decrypt_payer(data.payers[1], repo.key),
                            !.payments = LoadedPayments(data.payments, repo.key),
                            !.returned = IdleRepo.returned]
    /\ UNCHANGED <<data, RepoRest>>

\* MergePayments when merge stops at the payer.
MergePayments_NoCascade(stored, detached) == stored

\* db.merge(payer), line 315, for payer.payments: the relationship cascades
\* merge (models.py line 184, cascade="all, delete-orphan"), so each payment
\* of the detached collection is loaded into the Session and takes the
\* attribute values of the detached, decrypted copy; commit then writes the
\* columns that differ from the loaded row.
MergePayments(stored, detached) ==
    [i \in PaymentIds |-> IF stored[i] = NoPayment
                          THEN stored[i]
                          ELSE FlushRow(stored[i], stored[i], detached[i])]

\* PayerRepository.update, lines 312-321, of the loaded payer with the
\* caller's changes: merge copies every attribute of the detached object
\* onto the row.
PayerRepository_update(changes) ==
    /\ repo.pc = "loaded" /\ repo.op = "payer.get_by_id"
    /\ LET payer == [repo.entity EXCEPT
                        !.last_name = Changed(@, changes.last_name),
                        !.stipend_amount = Changed(@, changes.stipend_amount)]
           row == _encrypt_payer(payer, repo.key)
       IN  /\ data' = [data EXCEPT
                          !.payers[1] = row,
                          !.payments = MergePayments(@, repo.payments),
                          !.audit_logs = CommitLogs(@)]
           /\ repo' = [repo EXCEPT !.pc = "done", !.op = "payer.update",
                                   !.logs_loaded = FALSE,
                                   !.logs = IdleRepo.logs,
                                   !.entity = payer,
                                   !.returned = _decrypt_payer(row, repo.key)]
    /\ UNCHANGED RepoRest

\* PaymentRepository.create, lines 377-384.
PaymentRepository_create(payment) ==
    /\ repo.pc = "idle"
    /\ data.payments[1] = NoPayment
    /\ LET row == _encrypt_payment(payment, repo.key) IN
       /\ data' = [data EXCEPT !.payments[1] = row,
                                !.audit_logs = CommitLogs(@)]
       /\ repo' = [repo EXCEPT !.pc = "done", !.op = "payment.create",
                               !.logs_loaded = FALSE, !.logs = IdleRepo.logs,
                               !.entity = payment,
                               !.returned = _decrypt_payment(row, repo.key)]
    /\ UNCHANGED RepoRest

\* PaymentRepository.get_by_id, lines 339-345, at the start of a request.
PaymentRepository_get_by_id ==
    /\ repo.pc \in {"idle", "done"}
    /\ data.payments[1] # NoPayment
    /\ repo' = [repo EXCEPT
                   !.pc = "loaded", !.op = "payment.get_by_id",
                   !.entity = _decrypt_payment(data.payments[1], repo.key),
                   !.payments = IdleRepo.payments,
                   !.returned = IdleRepo.returned]
    /\ UNCHANGED <<data, RepoRest>>

\* PaymentRepository.update, lines 386-394.
PaymentRepository_update(changes) ==
    /\ repo.pc = "loaded" /\ repo.op = "payment.get_by_id"
    /\ LET payment == [repo.entity EXCEPT
                          !.amount = Changed(@, changes.amount),
                          !.receipt_number = Changed(@, changes.receipt_number)]
           row == _encrypt_payment(payment, repo.key)
       IN  /\ data' = [data EXCEPT !.payments[1] = row,
                                    !.audit_logs = CommitLogs(@)]
           /\ repo' = [repo EXCEPT !.pc = "done", !.op = "payment.update",
                                   !.logs_loaded = FALSE,
                                   !.logs = IdleRepo.logs,
                                   !.entity = payment,
                                   !.returned = _decrypt_payment(row, repo.key)]
    /\ UNCHANGED RepoRest

\* AuditRepository.get_by_entity, lines 613-622: the logs are decrypted in
\* place and returned; unlike the payer and payment reads there is no
\* _safe_expunge, so the objects stay in the Session with the decrypted
\* values as pending changes.
DecryptedLogs(stored, key) ==
    [loaded |-> TRUE,
     logs |-> [i \in AuditIds |->
                  [old_values |-> decrypt_field(stored[i].old_values, key),
                   new_values |-> decrypt_field(stored[i].new_values, key)]]]

\* AuditRepository.get_by_entity called in a request, before or between the
\* payer and payment calls of the same Session.
AuditRepository_get_by_entity ==
    /\ repo.pc \in {"idle", "loaded"}
    /\ ~repo.logs_loaded
    /\ LET read == DecryptedLogs(data.audit_logs, repo.key) IN
       repo' = [repo EXCEPT !.logs_loaded = read.loaded, !.logs = read.logs]
    /\ UNCHANGED <<data, RepoRest>>

RepoNext ==
    \/ AuditRepository_get_by_entity
    \/ \E payer \in NewPayers : PayerRepository_create(payer)
    \/ PayerRepository_get_by_id
    \/ \E changes \in PayerChanges : PayerRepository_update(changes)
    \/ \E payment \in NewPayments : PaymentRepository_create(payment)
    \/ PaymentRepository_get_by_id
    \/ \E changes \in PaymentChanges : PaymentRepository_update(changes)

RepoSpec == RepoInit /\ [][RepoNext]_vars


(***************************************************************************)
(* Vocabulary of the claims.                                               *)
(***************************************************************************)
Positions ==
    ({"payers"} \X PayerIds \X DOMAIN NoPayer)
        \cup ({"payments"} \X PaymentIds \X DOMAIN NoPayment)
        \cup ({"audit_logs"} \X AuditIds \X DOMAIN NoAuditLog)

Field(d, pos) == d[pos[1]][pos[2]][pos[3]]

FieldValues(d) == {Field(d, pos) : pos \in Positions}

\* The keys the stored tokens are sealed under.
SealKeys(d) == {Head(x.layers) : x \in {y \in FieldValues(d) : IsToken(y)}}

Plaintext(d) == \A x \in FieldValues(d) : ~IsToken(x)
FullyMigrated(d) == \A x \in FieldValues(d) : IsNone(x) \/ IsToken(x)

\* The password that verifies against the stored hash.
PasswordOf(user) ==
    CHOOSE p \in Passwords \cup {""} : verify_password(p, user.hashed_password)

\* The Master Key an account recovers with its own password; NoKey if none.
RecoveredKey(user) ==
    IF user.exists /\ user.encrypted_master_key # NoWrap
    THEN unwrap_master_key(user.encrypted_master_key,
                           derive_user_key(PasswordOf(user), user.key_salt))
    ELSE NoKey

HasWrappedKey(user) == user.exists /\ user.encrypted_master_key # NoWrap

(***************************************************************************)
(* C1.  At most one Master Key is ever minted: a login that passes the     *)
(* password check on an account without encrypted_master_key, while some   *)
(* other account already recovers a Master Key, generates no Master Key.   *)
(* The code takes the "first login" branch on the account's own column     *)
(* alone, so this is violated.                                             *)
(***************************************************************************)
C1_NoSecondMasterKey ==
    [][\A c \in Clients, u \in Users, p \in Passwords :
          (/\ LoginStart(c, u, p)
           /\ LoginOutcome(users[u], p) = "first"
           /\ \E v \in Users \ {u} : RecoveredKey(users[v]) # NoKey)
          => nextKey' = nextKey]_vars

(***************************************************************************)
(* C2.  Two first logins of different operators that both swept the        *)
(* plaintext dataset (so both read their encrypted_master_key as absent    *)
(* before either committed) end, once both have committed, with every      *)
(* wrapped record unwrapping to one key and every token sealed under it.   *)
(* Nothing serialises the two requests, so this is violated.               *)
(***************************************************************************)
RacedFirstLogins(c1, c2) ==
    /\ c1 # c2
    /\ req[c1].pc = "finish" /\ req[c1].first /\ Plaintext(req[c1].snap)
    /\ req[c2].pc = "finish" /\ req[c2].first /\ Plaintext(req[c2].snap)
    /\ req[c1].user # req[c2].user

OneMasterKey ==
    Cardinality({RecoveredKey(users[u]) : u \in {v \in Users : HasWrappedKey(users[v])}}
                    \cup SealKeys(data)) <= 1

C2_RacingFirstLoginsShareOneKey ==
    \A c1 \in Clients, c2 \in Clients : RacedFirstLogins(c1, c2) => OneMasterKey

(***************************************************************************)
(* C3.  Every active account that logs in successfully again and again is  *)
(* at some point Enrolled: its wrapped record unwraps, under the key        *)
(* derived from its password, to the one key the dataset's tokens are      *)
(* sealed under.  An account that existed before another account's first   *)
(* login mints a key of its own at its first login (C1) and unwraps that   *)
(* key at every later login, so this is violated.                          *)
(***************************************************************************)
Enrolled(u) ==
    /\ users[u].exists /\ users[u].is_active
    /\ RecoveredKey(users[u]) # NoKey
    /\ SealKeys(data) = {RecoveredKey(users[u])}

SuccessfulLogin(u) ==
    \E c \in Clients :
        /\ LoginFinish(c)
        /\ req[c].user = u
        /\ users[u].exists /\ users[u].is_active

C3_EveryOperatorEventuallyEnrolled ==
    \A u \in Users : ([]<><<SuccessfulLogin(u)>>_vars) => <>Enrolled(u)

(***************************************************************************)
(* C4.  A successful change_password by an account that recovers a Master  *)
(* Key leaves it recovering that same Master Key under the new password.   *)
(* change_password re-wraps the key of the session cookie, which is not    *)
(* the account's key after two first logins of the account raced (C2), so  *)
(* this is violated.                                                       *)
(***************************************************************************)
C4_PasswordChangeKeepsMasterKey ==
    [][\A c \in Clients :
          (/\ ChangePasswordCommit(c)
           /\ users[req[c].user].exists
           /\ RecoveredKey(users[req[c].user]) # NoKey)
          => RecoveredKey(users'[req[c].user]) = RecoveredKey(users[req[c].user])]_vars

C6_MigrationIdempotent ==
    /\ \A k \in KeyIds : FullyMigrated(data) => MigrateData(data, k) = data
    /\ \A c \in Clients :
          (req[c].pc = "commit" /\ FullyMigrated(req[c].snap))
          => SweepCommitData(data, req[c]) = data

\* A second sweep, under another key, has committed over a migrated dataset.
C6_Witness ==
    \E c \in Clients :
        /\ req[c].pc = "finish" /\ req[c].first
        /\ FullyMigrated(req[c].snap)
        /\ SealKeys(data) # {}
        /\ req[c].master_key \notin SealKeys(data)

C8_FailedLoginChangesNothing ==
    [][\A c \in Clients, u \in Users, p \in Passwords :
          (/\ LoginStart(c, u, p)
           /\ HasWrappedKey(users[u])
           /\ LoginOutcome(users[u], p) \in {"unauthorized", "decrypt_failed"})
          => /\ resp'.status \in {"401 Incorrect username or password",
                                  "401 Failed to decrypt encryption key"}
             /\ req'[c] = IdleReq
             /\ UNCHANGED <<users, data, cookies>>]_vars

\* A login passed the password check of an enrolled account and was turned
\* away because the derived key did not unwrap its encrypted_master_key.
C8_Witness ==
    resp = [op |-> "login", status |-> "401 Failed to decrypt encryption key"]

(***************************************************************************)
(* C9.  Opening a token with a key other than the one it was sealed with,  *)
(* or a token damaged after sealing, gives a result that is none of the    *)
(* values the codec returns for a decrypted field (None, a str, a Decimal, *)
(* a date).  decrypt_field returns the token itself as a str and           *)
(* decrypt_decimal / decrypt_date return None, so this is violated.        *)
(***************************************************************************)
IsFailure(val) == val.typ \notin {"null", "text", "dec", "date"}

C9_WrongKeyOrDamageIsFailure ==
    (/\ codec.pc = "opened" /\ codec.fn \in FieldFns
     /\ IsToken(codec.token)
     /\ (codec.damaged \/ codec.k1 # codec.k2))
    => IsFailure(codec.out)

(***************************************************************************)
(* C10.  unwrap_master_key(wrapped, user_key) returns the wrapped Master   *)
(* Key when wrapped is what wrap_master_key returned under that user_key   *)
(* (same password and same salt), and None when the user_key differs or    *)
(* wrapped was damaged after wrapping.                                     *)
(***************************************************************************)
C10_UnwrapReturnsKeyOrNone ==
    (codec.pc = "opened" /\ codec.fn = "wrap")
    => codec.unwrapped =
          IF /\ ~codec.damaged
             /\ derive_user_key(codec.pw1, codec.salt1)
                  = derive_user_key(codec.pw2, codec.salt2)
          THEN codec.master_key
          ELSE NoKey

\* unwrap_master_key was called with the right password and another salt and
\* returned None.
C10_Witness ==
    /\ codec.pc = "opened" /\ codec.fn = "wrap"
    /\ ~codec.damaged
    /\ codec.pw1 = codec.pw2 /\ codec.salt1 # codec.salt2
    /\ codec.unwrapped = NoKey

(***************************************************************************)
(* C11.  Codec round trip: a non-null text, Decimal or date sealed by its  *)
(* encrypt function under a key and opened by the matching decrypt         *)
(* function under the same key comes back as the value that went in.       *)
(***************************************************************************)
RoundTrip ==
    /\ codec.pc = "opened" /\ codec.fn \in FieldFns
    /\ codec.open = codec.fn
    /\ ~codec.stored /\ ~codec.damaged
    /\ codec.k1 = codec.k2
    /\ ~IsNone(codec.value)

C11_CodecRoundTrip == RoundTrip => codec.out = codec.value

\* A zero Decimal went through encrypt_decimal and decrypt_decimal.
C11_Witness ==
    RoundTrip /\ codec.fn = "decimal" /\ codec.value = Dec("0.00")
    /\ IsToken(codec.token) /\ codec.out = Dec("0.00")

(***************************************************************************)
(* C12.  Session key round trip: decrypt_session_key gives back the Master *)
(* Key of a token encrypt_session_key produced under this server's secret, *)
(* and None for a token damaged afterwards or sealed under another secret. *)
(***************************************************************************)
C12_SessionKeyRoundTrip ==
    (codec.pc = "opened" /\ codec.fn = "session")
    => codec.session =
          IF ~codec.damaged /\ codec.secret = SECRET_KEY
          THEN codec.master_key
          ELSE NoKey

\* An intact token sealed under another server secret was refused.
C12_Witness ==
    /\ codec.pc = "opened" /\ codec.fn = "session"
    /\ ~codec.damaged /\ codec.secret # SECRET_KEY
    /\ codec.cookie.sound
    /\ codec.session = NoKey

(***************************************************************************)
(* C13.  The Master Key is never stored or handed to a client unwrapped:   *)
(* in every state a stored encrypted_master_key is NULL or a wrap of a key *)
(* under a key derived from a password and a generated salt, an            *)
(* encryption_key cookie is absent or a token sealed under the key derived *)
(* from the server secret, the other two cookies name only the account,    *)
(* and every stored field is a plain value or a token of one.              *)
(***************************************************************************)
UserKeys ==
    {derive_user_key(p, t) : p \in Passwords, t \in 1..MaxSalts}

WrappedKeys ==
    {wrap_master_key(k, uk) : k \in KeyIds, uk \in UserKeys}

SealedSessionKeys == {encrypt_session_key(k) : k \in KeyIds}

C13_MasterKeyNeverStoredUnwrapped ==
    /\ \A u \in Users :
          users[u].encrypted_master_key \in {NoWrap} \cup WrappedKeys
    /\ \A c \in Clients :
          /\ cookies[c].encryption_key \in {NoCookie} \cup SealedSessionKeys
          /\ cookies[c].access_token
                \in {NoToken} \cup {create_access_token(u) : u \in Users}
          /\ cookies[c].refresh_token
                \in {NoToken} \cup {create_refresh_token(u) : u \in Users}
    /\ \A x \in FieldValues(data) :
          x.typ \in {"null", "text", "dec", "date"}

\* A client holds a sealed session key after a password change re-wrapped
\* the stored record, over an encrypted dataset.
C13_Witness ==
    \E c \in Clients, u \in Users :
        /\ cookies[c].encryption_key \in SealedSessionKeys
        /\ cookies[c].access_token = create_access_token(u)
        /\ users[u].encrypted_master_key \in WrappedKeys
        /\ PasswordOf(users[u]) = "p1"
        /\ SealKeys(data) # {}

\* C14: every operator account has its wrapped master key and its key salt
\* either both present or both absent, whatever login, create_user,
\* change_password and update_user have committed and in whatever order.
C14_WrappedKeyAndSaltTogether ==
    \A u \in Users :
        (users[u].encrypted_master_key = NoWrap) <=> (users[u].key_salt = NoSalt)

\* An enrolled account whose password was changed and which update_user then
\* deactivated, beside an account that has never logged in.
C14_Witness ==
    \E u \in Users, v \in Users :
        /\ users[u].exists /\ ~users[u].is_active
        /\ users[u].encrypted_master_key \in WrappedKeys
        /\ users[u].key_salt # NoSalt
        /\ PasswordOf(users[u]) = "p1"
        /\ users[v].exists
        /\ users[v].encrypted_master_key = NoWrap
        /\ users[v].key_salt = NoSalt

\* C15: a step in which a client's access_token cookie goes away (its logout)
\* leaves that client with none of the three cookies and so with no Master
\* Key credential, changes no account and no stored row, and the sealed token
\* the client held still unseals to a Master Key under the server secret;
\* a client without the encryption_key cookie gets one only from the end of
\* a login of its own.
C15_LogoutIsClientSideOnly ==
    [][\A c \in Clients :
          /\ (cookies[c].access_token # NoToken
                 /\ cookies'[c].access_token = NoToken)
             => /\ cookies'[c] = NoCookies
                /\ get_encryption_key(cookies'[c]) = NoKey
                /\ users' = users
                /\ data' = data
                /\ decrypt_session_key(cookies[c].encryption_key) \in KeyIds
                /\ encrypt_session_key(
                       decrypt_session_key(cookies[c].encryption_key))
                     = cookies[c].encryption_key
          /\ (cookies[c].encryption_key = NoCookie
                 /\ cookies'[c].encryption_key # NoCookie)
             => (req[c].pc = "finish" /\ req'[c].pc = "idle")]_vars

\* Every client has logged out after a first login that migrated the data.
C15_Witness ==
    /\ \A c \in Clients : cookies[c] = NoCookies /\ req[c].pc = "idle"
    /\ \E u \in Users : users[u].last_login # 0 /\ Enrolled(u)
    /\ SealKeys(data) # {}

\* C16: when a token decrypts under the key it was sealed with but the text
\* is not a decimal (decrypt_decimal) or not an ISO date (decrypt_date), the
\* result is a data-integrity error for that field, never the None of an
\* absent value.  decrypt_decimal and decrypt_date catch the parse error
\* and return None (encryption.py lines 109-112, 129-132), so this is
\* violated.
ParseFailure ==
    /\ codec.pc = "opened" /\ codec.fn \in FieldFns
    /\ codec.open \in {"decimal", "date"} /\ codec.open # codec.fn
    /\ IsToken(codec.token)
    /\ ~codec.stored /\ ~codec.damaged
    /\ codec.k1 = codec.k2

C16_ParseFailureIsDistinctError ==
    ParseFailure => (IsFailure(codec.out) /\ ~IsNone(codec.out))

\* C17: after PayerRepository.create/update or PaymentRepository.create/
\* update with key k has committed, every non-null sensitive field of the
\* stored row is a token that decrypts under k to the value the caller
\* supplied, and the returned entity carries the supplied values.  For a name
\* that is the empty string _decrypt_payer evaluates  "" or token  and hands
\* back the token (repositories.py lines 51-52), so this is violated.
Written == repo.pc = "done"

WrittenRow ==
    IF repo.op \in {"payer.create", "payer.update"}
    THEN data.payers[1] ELSE data.payments[1]

WrittenCodec ==
    IF repo.op \in {"payer.create", "payer.update"}
    THEN PayerCodec ELSE PaymentCodec

StoredSealed ==
    \A f \in DOMAIN WrittenCodec :
        ~IsNone(WrittenRow[f])
        => /\ IsToken(WrittenRow[f])
           /\ CodecOpenFn(WrittenCodec[f], WrittenRow[f], repo.key)
                = repo.entity[f]

C17_WritePathSealsAndReturnsPlaintext ==
    Written => (StoredSealed /\ repo.returned = repo.entity)

\* C18: once a first login's migration has committed (an account holds a
\* wrapped Master Key), no login changes a stored payer, payment or audit-log
\* field: the sweep takes effect exactly once.  A first login that read the
\* rows before that commit still writes its own sweep after it (the raced
\* first logins of C2), so this is violated.
MigrationCommitted == \E u \in Users : HasWrappedKey(users[u])

C18_SweepTakesEffectOnce ==
    [][MigrationCommitted => data' = data]_vars

\* C19: for every string that is not a valid token under the key it is
\* opened with (legacy plaintext never sealed, a token sealed under another
\* key, a corrupted token), decrypt_field returns that string unchanged.
NotAValidToken ==
    /\ codec.pc = "opened" /\ codec.fn \in FieldFns
    /\ codec.open = "field"
    /\ IsStr(codec.token)
    /\ (codec.stored \/ codec.damaged \/ codec.k1 # codec.k2)

C19_DegradedDecryptReturnsInput == NotAValidToken => codec.out = codec.token

\* A token sealed under one key, intact, opened under another.
C19_Witness ==
    /\ NotAValidToken /\ ~codec.stored /\ ~codec.damaged
    /\ IsToken(codec.token) /\ codec.value = Text("ivanov")
    /\ codec.out = codec.token

\* C20: the migration preserves logical values: in the step that commits the
\* sweep over a plaintext database, every payer and payment field decodes,
\* under the Master Key of that sweep, to the logical value it held before;
\* NULL stays NULL and a non-null value, a decimal zero included, does not
\* become NULL.  The sweep writes None for a stipend_amount or
\* budget_percent that is a falsy Decimal (auth_api.py lines 53-54), so this
\* is violated.
Logical(fn, val) ==
    CASE fn = "decimal" /\ IsStr(val) -> Dec(val.v)
      [] fn = "date" /\ IsStr(val) -> Date(val.v)
      [] OTHER -> val

DecodesTo(before, after, key) ==
    /\ \A i \in PayerIds, f \in DOMAIN PayerCodec :
          CodecOpenFn(PayerCodec[f], after.payers[i][f], key)
            = Logical(PayerCodec[f], before.payers[i][f])
    /\ \A i \in PaymentIds, f \in DOMAIN PaymentCodec :
          CodecOpenFn(PaymentCodec[f], after.payments[i][f], key)
            = Logical(PaymentCodec[f], before.payments[i][f])

SweepCommits(c) ==
    /\ req[c].pc = "commit" /\ req'[c].pc = "finish"
    /\ req[c].snap = data

DecidedPerField(before, after, key) ==
    \A pos \in Positions :
        LET x == Field(before, pos)
            y == Field(after, pos)
        IN  CASE IsToken(x) -> y = x
              [] IsNone(x) -> IsNone(y)
              [] OTHER -> /\ IsToken(y)
                          /\ y.layers = <<key>>
                          /\ y.v = x.v

C21_MigrationDecidesPerField ==
    [][\A c \in Clients :
          SweepCommits(c) => DecidedPerField(data, data', req[c].master_key)]_vars

\* C22: the step in which create_user commits a new account leaves it
\* enrolled: unwrapping its encrypted_master_key with the key derived from
\* its initial password and its key_salt yields the Master Key of the
\* creating admin's session, and no Master Key is minted in the step.
CreatedBy(c, u) ==
    /\ ~users[u].exists /\ users'[u].exists
    /\ CreateUserOutcome(cookies[c], u) = "200"

C22_CreatedOperatorIsEnrolled ==
    [][\A u \in Users :
          (~users[u].exists /\ users'[u].exists)
          => /\ \E c \in Clients :
                   /\ CreatedBy(c, u)
                   /\ users'[u].key_salt # NoSalt
                   /\ unwrap_master_key(
                          users'[u].encrypted_master_key,
                          derive_user_key(PasswordOf(users'[u]),
                                          users'[u].key_salt))
                        = get_encryption_key(cookies[c])
                   /\ get_encryption_key(cookies[c]) \in KeyIds
             /\ nextKey' = nextKey]_vars

\* An account created by an admin, never logged in, that recovers the Master
\* Key of a session with its own password.
C22_Witness ==
    \E u \in Users, c \in Clients :
        /\ users[u].exists /\ users[u].last_login = 0
        /\ users[u].role = "operator"
        /\ PasswordOf(users[u]) = "p1"
        /\ RecoveredKey(users[u]) \in KeyIds
        /\ RecoveredKey(users[u]) = get_encryption_key(cookies[c])

\* C23: a refresh request, answered 200 or turned away, leaves every
\* client's encryption_key cookie exactly as it was (the same sealed value,
\* or none when the request carried none) and changes no stored record.
C23_RefreshKeepsKeyCustody ==
    [][resp'.op = "refresh"
          => /\ \A c \in Clients :
                   cookies'[c].encryption_key = cookies[c].encryption_key
             /\ users' = users
             /\ data' = data]_vars

\* A refresh answered 200 for a client that had lost its access_token: the
\* access token is back and the sealed key is the one the login issued.
C23_Witness ==
    /\ resp = [op |-> "refresh", status |-> "200"]
    /\ \E c \in Clients :
          /\ cookies[c].access_token # NoToken
          /\ cookies[c].encryption_key \in SealedSessionKeys
          /\ \E d \in Clients \ {c} :
                /\ cookies[d].refresh_token # NoToken
                /\ cookies[d].encryption_key = NoCookie

\* C24: in every committed state, for every account that holds a wrapped
\* Master Key, the password that verifies against hashed_password is the
\* password whose derived key, with the stored key_salt, unwraps it (so a
\* login that passes the password check always unwraps).  A first login
\* whose commit lands after a change_password of the same account writes
\* encrypted_master_key and key_salt for its own password beside the new
\* hash, so this is violated.
C24_HashAndWrapAgree ==
    \A u \in Users :
        HasWrappedKey(users[u])
        => /\ RecoveredKey(users[u]) # NoKey
           /\ \A p \in Passwords :
                 LoginOutcome(users[u], p) # "decrypt_failed"

\* C25: PayerRepository.update of a payer obtained from get_by_id changes
\* only the payer's own row: the stored amount, receipt_number and notes of
\* the payer's payments are the same tokens as before.  merge cascades to
\* the decrypted payments of the detached payer and commit writes their
\* plaintext, so this is violated.
PayerUpdateCommits ==
    /\ repo.pc = "loaded" /\ repo.op = "payer.get_by_id"
    /\ repo'.pc = "done"

C25_PayerUpdateLeavesPayments ==
    [][PayerUpdateCommits => data'.payments = data.payments]_vars

\* A repository write commits in this step.
RepoCommits == repo.pc \in {"idle", "loaded"} /\ repo'.pc = "done"

\* C26: reads never persist plaintext.  After a repository read (payer,
\* payment or audit log) followed by a later commit on the same database
\* session, every stored sensitive field of the rows that were only read is
\* byte-identical to its value before the read: the commit of a payer or
\* payment write leaves every audit log row as stored, the commit of a
\* payment write leaves the payers as stored, and the commit of a payer
\* creation leaves the payments as stored.
C26_ReadsNeverPersistPlaintext ==
    [][RepoCommits =>
          /\ data'.audit_logs = data.audit_logs
          /\ repo'.op \in {"payment.create", "payment.update"}
                => data'.payers = data.payers
          /\ repo'.op = "payer.create" => data'.payments = data.payments]_vars

\* A delete_user request commits its deletion in this step.
DeleteCommits(c) == req[c].pc = "delete" /\ req'[c].pc = "idle" /\ users' # users

\* C27: once a Master Key has been minted, the store keeps at least one
\* operator record from which it can be unwrapped: a step in which a
\* delete_user request removes an account leaves, for every Master Key that
\* seals a stored field and that some record unwrapped to before the step,
\* a record that unwraps to it after the step, whatever the interleaving of
\* the requests.
C27_DeleteKeepsAKeyHolder ==
    [][\A c \in Clients :
          DeleteCommits(c) =>
              \A k \in SealKeys(data) :
                  (\E u \in Users : RecoveredKey(users[u]) = k)
                      => (\E u \in Users : RecoveredKey(users'[u]) = k)]_vars

\* C28: change_password with a current_password that does not verify is
\* rejected: the request ends in that step with a response other than 200,
\* hashed_password, encrypted_master_key and key_salt of every operator are
\* left as they were, and no cookie is issued.
C28_WrongCurrentPasswordChangesNothing ==
    [][\A c \in Clients, p \in Passwords, q \in Passwords :
          (/\ ChangePasswordStart(c, p, q)
           /\ CurrentUserStatus(cookies[c]) = "ok"
           /\ ~verify_password(p, users[cookies[c].access_token.sub].hashed_password))
          => /\ req'[c].pc = "idle"
             /\ resp'.op = "change_password" /\ resp'.status # "200"
             /\ users' = users
             /\ cookies' = cookies
             /\ nextSalt' = nextSalt]_vars

\* A change-password request with a wrong current password has just been
\* answered 400, the operator holding a wrapped key and a sealed session
\* key.
C28_Witness ==
    /\ resp = [op |-> "change_password",
               status |-> "400 Current password is incorrect"]
    /\ \E c \in Clients :
          /\ CurrentUserStatus(cookies[c]) = "ok"
          /\ get_encryption_key(cookies[c]) \in KeyIds
          /\ HasWrappedKey(users[cookies[c].access_token.sub])

\* C29: a login on a deactivated account is rejected before any key
\* operation: the step that handles it starts no sweep, mints no Master Key
\* and no salt, writes no operator record and no data row, and issues no
\* cookie, even when the password is correct and the account is unenrolled.
C29_DeactivatedLoginTouchesNoKey ==
    [][\A c \in Clients, u \in Users, p \in Passwords :
          (/\ LoginStart(c, u, p)
           /\ users[u].exists /\ ~users[u].is_active)
          => /\ req'[c].pc = "idle"
             /\ resp'.op = "login" /\ resp'.status # "200"
             /\ nextKey' = nextKey /\ nextSalt' = nextSalt
             /\ users' = users /\ data' = data
             /\ cookies' = cookies]_vars

\* A login with the correct password on a deactivated, unenrolled account
\* has just been answered 403, after a Master Key was minted by another
\* account.
C29_Witness ==
    /\ resp = [op |-> "login", status |-> "403 User account is deactivated"]
    /\ nextKey > 0
    /\ \E u \in Users :
          /\ users[u].exists /\ ~users[u].is_active
          /\ users[u].encrypted_master_key = NoWrap
          /\ users[u].key_salt = NoSalt

\* The row after the step holds, field by field, what the row before held:
\* a token stays one token under the same key over the same value, and any
\* other value stays as it is.
SameLogicalRow(before, after) ==
    \A f \in DOMAIN before :
        IF IsToken(before[f])
        THEN /\ IsToken(after[f])
             /\ after[f].layers = before[f].layers
             /\ after[f].v = before[f].v
        ELSE after[f] = before[f]

\* update is called in this step with the object get_by_id returned,
\* unmodified.
UnmodifiedUpdate(op) ==
    /\ repo.pc = "loaded" /\ repo.op = op
    /\ repo'.pc = "done"
    /\ repo'.entity = repo.entity

\* C30: read-then-write is the identity on stored logical values.  For any
\* session key, get_by_id followed by update of the unmodified object, for
\* a payer and for a payment, leaves every sensitive field of that row
\* decrypting under the key that sealed it to the same value: no field
\* becomes doubly sealed, null, or sealed under a different key.
C30_ReadThenWriteIsIdentity ==
    [][/\ UnmodifiedUpdate("payer.get_by_id")
          => SameLogicalRow(data.payers[1], data'.payers[1])
       /\ UnmodifiedUpdate("payment.get_by_id")
          => SameLogicalRow(data.payments[1], data'.payments[1])]_vars

=============================================================================
